---- MODULE Spec2Model ----
(***************************************************************************)
(* Drowsiness detector: the per-frame EAR state machine, the cooldown      *)
(* gated alert dispatcher, the worker loop and the web control surface.    *)
(*                                                                         *)
(* Units.  EAR values and EAR_THRESHOLD are in hundredths (25 is 0.25).    *)
(* Times are whole seconds of time.time().  A face is the pair             *)
(* <<left_ear, right_ear>>; a frame is the sequence of faces dlib finds.   *)
(***************************************************************************)
EXTENDS Integers, Sequences, FiniteSets, TLC

(* ------------------------------------------------------------------ *)
(* Program constants (src/config.py)                                  *)
(* ------------------------------------------------------------------ *)
DefaultEarThreshold == 25
DefaultFramesThreshold == 20
DefaultAudioCooldown == 5
DefaultEmailCooldown == 60

(* ------------------------------------------------------------------ *)
(* Bounds of the model                                                *)
(* ------------------------------------------------------------------ *)
\* frames the video source delivers before read() starts failing
MaxFrames == 3
\* seconds the clock advances past StartTime
MaxElapsed == 10
\* time.time() when the program starts (the epoch clock is far past any cooldown)
StartTime == 100
\* calls of stop_detection() that are counted
MaxStops == 2
\* length of a scripted EAR sequence, and largest scripted frames threshold
MaxScript == 5
MaxThreshold == 3

Workers == {"w1", "w2"}
TickSteps == {5}

\* eye aspect ratios of one face, in hundredths: <<left, right>>; their
\* means are 0.20, 0.25 and 0.30
Faces == {<<20, 20>>, <<20, 30>>, <<30, 30>>}
\* what dlib finds in a frame: no face, one face, two faces
OneFaceFrames == {<<>>} \cup {<<f>> : f \in Faces}
Frames == OneFaceFrames \cup
              {<<<<20, 20>>, <<20, 20>>>>, <<<<20, 20>>, <<30, 30>>>>,
               <<<<30, 30>>, <<20, 20>>>>}

\* failures the environment can inject into one loop iteration, and the key
\* cv2.waitKey returns at its end
Faults == {"none", "audio_start", "mkdir", "imwrite", "email_start"}
RaisingFaults == {"none", "audio_start", "mkdir"}
DirectoryFaults == {"none", "mkdir"}
Keys == {"none", "q", "s"}
IterEnvs(faults) ==
    {[fault |-> f, key |-> "none"] : f \in faults}
        \cup {[fault |-> "none", key |-> "q"], [fault |-> "none", key |-> "s"],
              [fault |-> "mkdir", key |-> "s"]}

\* JSON values posted to /api/config, in hundredths; Absent: key not in data;
\* Bad: a value float()/int() rejects
Absent == -1
Bad == -2
EarInputs == {Absent, 25, 30}
FramesInputs == {Absent, Bad, 100, 250}
AudioCooldownInputs == {Absent, 0, 500}
EmailCooldownInputs == {Absent, 500, 6000}

VARIABLES
    \* DrowsinessDetector fields
    is_drowsy, eye_closed_frames, last_alert_time, last_email_time, running,
    total_frames, drowsy_detections, cap, session_start_time,
    \* config module globals
    EAR_THRESHOLD, DROWSINESS_FRAMES_THRESHOLD, AUDIO_ALERT_COOLDOWN, EMAIL_ALERT_COOLDOWN,
    \* threads: detection loops, alert tasks in flight
    pc, audio_tasks, email_tasks,
    \* AudioAlert.playing / .initialized, EmailNotifier credentials present
    playing, initialized, email_configured,
    \* environment: clock, frames delivered by the video source, SMTP sessions opened
    now, pulled, smtp_sessions,
    \* observation: faces of the frame processed last, calls of
    \* handle_drowsiness_detection so far, the exception start_detection caught
    \* last, the exception that escaped a background alert thread, what the
    \* last play_alert call produced
    frame, handle_calls, last_error, thread_exc, audio_out,
    \* faces of that frame whose pass through the loop body completed
    faces_done,
    \* workers that were inside the loop when stop_detection() was last called
    stop_seen,
    \* scripted video source (empty: frames are arbitrary)
    script,
    \* a /api/status request in progress: where it stands and what it has read
    reader,
    \* the tuples (running, is_drowsy, total_frames, drowsy_detections) the
    \* detector has held since that request began
    held,
    \* web_interface.detector, the DrowsinessDetector objects constructed so
    \* far, the one run_web_interface made, request threads inside get_detector
    detector, instances, main_detector, getters,
    \* per channel, time.time() of the call that started its last alert thread
    dispatched,
    \* detection threads that had not yet reached `self.running = True` when
    \* stop_detection() was last called, no start request having come since
    \* (Untracked in the specifications that do not observe it)
    stop_pending,
    \* calls of stop_detection() so far (NotCounted in the specifications that
    \* do not observe them)
    stop_calls,
    \* the Python process: "web" (app.run() serving), "cli" (run_detection_only
    \* in the main thread), "exited"
    process,
    \* threads inside process_frame, statement by statement: where each stands,
    \* its local current_time and the value it loaded for a `+=`
    proc

detVars == <<is_drowsy, eye_closed_frames, last_alert_time, last_email_time,
             total_frames, drowsy_detections, handle_calls, faces_done>>
cfgVars == <<EAR_THRESHOLD, DROWSINESS_FRAMES_THRESHOLD, AUDIO_ALERT_COOLDOWN,
             EMAIL_ALERT_COOLDOWN>>
taskVars == <<audio_tasks, email_tasks>>
audioVars == <<playing, audio_out>>
envVars == <<initialized, email_configured, script, session_start_time>>
webVars == <<reader, detector, instances, main_detector, getters>>
histVars == <<dispatched, stop_pending, stop_calls, process, proc>>
vars == <<detVars, cfgVars, taskVars, audioVars, envVars, running, cap, pc, now,
          pulled, smtp_sessions, frame, last_error, thread_exc, stop_seen,
          webVars, held, histVars>>

\* what /api/status reports of the detector
Fields == <<running, is_drowsy, total_frames, drowsy_detections>>

\* request threads of the web server
Requests == {"r1", "r2", "r3"}
\* no /api/status request in progress
NoRead == [pc |-> "idle", total_frames |-> 0, drowsy_detections |-> 0,
           is_drowsy |-> FALSE, running |-> FALSE]

(* ------------------------------------------------------------------ *)
(* Detection state machine and alert dispatcher                       *)
(* (src/drowsiness_detector.py)                                       *)
(* ------------------------------------------------------------------ *)
\* stop_pending where it is not observed
Untracked == {"untracked"}
\* stop_calls where the calls are not counted
NotCounted == -1

\* the threads that run process_frame: the detection loop and the live stream
Procs == {"loop", "stream"}
\* a thread that is not inside process_frame
NoProc == [pc |-> "idle", t |-> 0, tmp |-> 0]

AudioPcs == {"check", "set", "play"}
NoTasks == [p \in AudioPcs |-> 0]

\* The detector fields process_frame reads and writes, with what one call
\* launched and the exception (if any) that is propagating out of it.
DetState ==
    [is_drowsy |-> is_drowsy, eye_closed_frames |-> eye_closed_frames,
     drowsy_detections |-> drowsy_detections, handle_calls |-> handle_calls,
     last_alert_time |-> last_alert_time, last_email_time |-> last_email_time,
     audio_launched |-> 0, email_launched |-> 0, faces_done |-> 0, exc |-> "none"]

\* handle_drowsiness_detection(frame) called at time t.  Thread.start() and
\* utils.ensure_directory() can raise; cv2.imwrite() reports failure by its
\* return value, which the code ignores.
handle_drowsiness_detection(st, t, fault) ==
    LET s0 == [st EXCEPT !.handle_calls = @ + 1]
        audio_due == t - s0.last_alert_time > AUDIO_ALERT_COOLDOWN
        s1 == IF ~audio_due THEN s0
              ELSE IF fault = "audio_start" THEN [s0 EXCEPT !.exc = "thread_start"]
              ELSE [s0 EXCEPT !.audio_launched = @ + 1, !.last_alert_time = t]
        email_due == t - s1.last_email_time > EMAIL_ALERT_COOLDOWN
    IN  IF s1.exc # "none" \/ ~email_due THEN s1
        ELSE IF fault = "mkdir" THEN [s1 EXCEPT !.exc = "mkdir_snapshots"]
        ELSE IF fault = "email_start" THEN [s1 EXCEPT !.exc = "thread_start"]
        ELSE [s1 EXCEPT !.email_launched = @ + 1, !.last_email_time = t]

\* faulty variant: an EAR equal to the threshold counts as closed
EyesClosedInclusive(face) == face[1] + face[2] <= 2 * EAR_THRESHOLD

\* numpy.float64 results that are no number of hundredths: x / 0.0 for
\* x > 0, and 0.0 / 0.0
Inf == -3
NaN == -4

\* faulty variant: a zero eye width is answered with an EAR of 0
calculate_ear_zero(eye) ==
    IF eye.C = 0 THEN 0 ELSE (100 * (eye.A + eye.B)) \div (2 * eye.C)

\* calculate_ear: ear = (A + B) / (2.0 * C), in hundredths, of the three
\* distances scipy's euclidean returns as numpy.float64; a division by
\* zero warns and yields inf or nan, it does not raise
calculate_ear(eye) ==
    IF eye.C = 0 THEN (IF eye.A + eye.B = 0 THEN NaN ELSE Inf)
    ELSE (100 * (eye.A + eye.B)) \div (2 * eye.C)

\* left_ear + right_ear: nan with a nan operand, else inf with an inf operand
EarSum(face) ==
    IF NaN \in {face[1], face[2]} THEN NaN
    ELSE IF Inf \in {face[1], face[2]} THEN Inf
    ELSE face[1] + face[2]

\* current_ear = (left_ear + right_ear) / 2.0 < config.EAR_THRESHOLD; the
\* comparison is False for inf and for nan
EyesClosed(face) ==
    /\ EarSum(face) \notin {Inf, NaN}
    /\ EarSum(face) < 2 * EAR_THRESHOLD

\* faulty variant: the onset waits until the counter exceeds the threshold
FaceStepLate(st, face, t, fault) ==
    IF face[1] + face[2] < 2 * EAR_THRESHOLD
    THEN LET s1 == [st EXCEPT !.eye_closed_frames = @ + 1]
         IN  IF s1.eye_closed_frames > DROWSINESS_FRAMES_THRESHOLD /\ ~s1.is_drowsy
             THEN handle_drowsiness_detection(
                      [s1 EXCEPT !.is_drowsy = TRUE, !.drowsy_detections = @ + 1],
                      t, fault)
             ELSE s1
    ELSE [st EXCEPT !.eye_closed_frames = 0, !.is_drowsy = FALSE]

\* faulty variant: level trigger, every low frame at or past the threshold
\* is an onset
FaceStepLevel(st, face, t, fault) ==
    IF face[1] + face[2] < 2 * EAR_THRESHOLD
    THEN LET s1 == [st EXCEPT !.eye_closed_frames = @ + 1]
         IN  IF s1.eye_closed_frames >= DROWSINESS_FRAMES_THRESHOLD
             THEN handle_drowsiness_detection(
                      [s1 EXCEPT !.is_drowsy = TRUE, !.drowsy_detections = @ + 1],
                      t, fault)
             ELSE s1
    ELSE [st EXCEPT !.eye_closed_frames = 0, !.is_drowsy = FALSE]

\* The body of process_frame's `for face in faces` loop for one face.
FaceStep(st, face, t, fault) ==
    IF EyesClosed(face)
    THEN LET s1 == [st EXCEPT !.eye_closed_frames = @ + 1]
         IN  IF s1.eye_closed_frames >= DROWSINESS_FRAMES_THRESHOLD /\ ~s1.is_drowsy
             THEN handle_drowsiness_detection(
                      [s1 EXCEPT !.is_drowsy = TRUE, !.drowsy_detections = @ + 1],
                      t, fault)
             ELSE s1
    ELSE [st EXCEPT !.eye_closed_frames = 0, !.is_drowsy = FALSE]

\* `for face in faces:` every detected face in turn; an exception ends it.
RECURSIVE ForEachFace(_, _, _, _)
ForEachFace(st, faces, t, fault) ==
    IF faces = <<>> \/ st.exc # "none" THEN st
    ELSE LET s1 == FaceStep(st, Head(faces), t, fault)
             s2 == IF s1.exc = "none" THEN [s1 EXCEPT !.faces_done = @ + 1] ELSE s1
         IN  ForEachFace(s2, Tail(faces), t, fault)

\* faulty variant: a frame without a face counts as evidence of open eyes
process_frame_reset(st, faces, t, fault) ==
    IF faces = <<>> THEN [st EXCEPT !.eye_closed_frames = 0, !.is_drowsy = FALSE]
    ELSE ForEachFace(st, faces, t, fault)

\* process_frame(frame): the detector's state changes only inside the loop
\* over the faces; with no face the frame is only annotated.
process_frame(st, faces, t, fault) == ForEachFace(st, faces, t, fault)

\* The detector after process_frame returned or raised `res`: the tasks it
\* launched are in flight at the start of play_alert / send_alert.
Commit(res, fault) ==
    /\ is_drowsy' = res.is_drowsy
    /\ eye_closed_frames' = res.eye_closed_frames
    /\ drowsy_detections' = res.drowsy_detections
    /\ handle_calls' = res.handle_calls
    /\ faces_done' = res.faces_done
    /\ last_alert_time' = res.last_alert_time
    /\ last_email_time' = res.last_email_time
    /\ audio_tasks' = [audio_tasks EXCEPT !["check"] = @ + res.audio_launched]
    /\ email_tasks' = [email_tasks EXCEPT ![fault # "imwrite"] = @ + res.email_launched]
    /\ dispatched' = [audio |-> IF res.audio_launched > 0 THEN res.last_alert_time
                                ELSE dispatched.audio,
                      email |-> IF res.email_launched > 0 THEN res.last_email_time
                                ELSE dispatched.email]


(* ------------------------------------------------------------------ *)
(* Detection loop (DrowsinessDetector.start_detection), one thread    *)
(* per accepted start request.  pc[w] is where thread w stands:       *)
(* idle (no thread), init (in initialize_camera), opened (before      *)
(* `self.running = True`), top (at `while self.running`), body, and   *)
(* exit_* (in `finally: self.cleanup()`, with why the loop ended).    *)
(* ------------------------------------------------------------------ *)
\* frames the video source delivers before read() fails for good
SourceLen == IF script = <<>> THEN MaxFrames ELSE Len(script)

ExitPcs == {"exit_stop", "exit_read", "exit_error", "exit_quit"}

\* web_interface.start_detection: spawns a thread unless det.running;
\* `ws` are the threads the system can still create
StartRequest(ws) ==
    /\ IF running
       THEN pc' = pc
       ELSE \E w \in ws :
                /\ pc[w] = "idle"
                /\ pc' = [pc EXCEPT ![w] = "init"]
    /\ stop_pending' = IF stop_pending = Untracked THEN Untracked ELSE {}
    /\ UNCHANGED <<detVars, cfgVars, taskVars, audioVars, envVars, running, cap,
                   now, pulled, smtp_sessions, frame, last_error, thread_exc, stop_seen,
                   webVars, held, dispatched, stop_calls, process, proc>>

\* indices initialize_camera passes to cv2.VideoCapture: 0, then range(1, 4)
CameraIndices == 0..3

\* initialize_camera(): VideoCapture(0), then 1, 2, 3 until one is opened;
\* `openable` are the indices at which a camera opens.  ok is its return
\* value, attempts the number of VideoCapture calls it made.
initialize_camera(openable) ==
    LET alternatives == openable \cap (1..3)
        first == CHOOSE i \in alternatives : \A j \in alternatives : i <= j
    IN  IF 0 \in openable THEN [ok |-> TRUE, attempts |-> 1]
        ELSE IF alternatives # {} THEN [ok |-> TRUE, attempts |-> 1 + first]
        ELSE [ok |-> FALSE, attempts |-> 4]

\* faulty variant: the session is marked running before the camera is opened
InitCameraRunningFirst(w, openable) ==
    /\ pc[w] = "init"
    /\ running' = TRUE
    /\ cap' = IF initialize_camera(openable).ok THEN "opened" ELSE "closed"
    /\ pc' = [pc EXCEPT ![w] = IF initialize_camera(openable).ok THEN "opened" ELSE "idle"]
    /\ last_error' = IF initialize_camera(openable).ok THEN last_error ELSE "camera"
    /\ UNCHANGED <<detVars, cfgVars, taskVars, audioVars, envVars, histVars, now,
                   pulled, smtp_sessions, frame, thread_exc, stop_seen, webVars>>
    /\ held' = IF reader.pc = "idle" THEN held ELSE held \cup {Fields'}

\* `if not self.initialize_camera(): return False`: self.cap is replaced by
\* the new capture object, opened or not; a failure is printed and the
\* thread ends before `self.running = True`
InitCamera(w, openable) ==
    /\ pc[w] = "init"
    /\ LET r == initialize_camera(openable)
       IN  /\ cap' = IF r.ok THEN "opened" ELSE "closed"
           /\ pc' = [pc EXCEPT ![w] = IF r.ok THEN "opened" ELSE "idle"]
           /\ last_error' = IF r.ok THEN last_error ELSE "camera"
    /\ UNCHANGED <<detVars, cfgVars, taskVars, audioVars, envVars, histVars, running, now,
                   pulled, smtp_sessions, frame, thread_exc, stop_seen,
                   webVars, held>>

\* self.running = True
SetRunning(w) ==
    /\ pc[w] = "opened"
    /\ running' = TRUE
    /\ pc' = [pc EXCEPT ![w] = "top"]
    /\ UNCHANGED <<detVars, cfgVars, taskVars, audioVars, envVars, histVars, cap, now, pulled,
                   smtp_sessions, frame, last_error, thread_exc, stop_seen,
                   webVars>>
    /\ held' = IF reader.pc = "idle" THEN held ELSE held \cup {Fields'}

\* faulty variant: the loop joins the alert threads before its next iteration
LoopTopJoin(w) ==
    /\ pc[w] = "top"
    /\ audio_tasks = NoTasks
    /\ email_tasks = [b \in BOOLEAN |-> 0]
    /\ pc' = [pc EXCEPT ![w] = IF running THEN "body" ELSE "exit_stop"]
    /\ UNCHANGED <<detVars, cfgVars, taskVars, audioVars, envVars, histVars, running, cap, now,
                   pulled, smtp_sessions, frame, last_error, thread_exc, stop_seen,
                   webVars, held>>

\* while self.running:
LoopTop(w) ==
    /\ pc[w] = "top"
    /\ pc' = [pc EXCEPT ![w] = IF running THEN "body" ELSE "exit_stop"]
    /\ UNCHANGED <<detVars, cfgVars, taskVars, audioVars, envVars, histVars, running, cap, now,
                   pulled, smtp_sessions, frame, last_error, thread_exc, stop_seen,
                   webVars, held>>

\* faulty variant: a failed read is retried at the next iteration
ReadFailRetry(w) ==
    /\ pc[w] = "body"
    /\ pc' = [pc EXCEPT ![w] = "top"]
    /\ UNCHANGED <<detVars, cfgVars, taskVars, audioVars, envVars, histVars, running, cap, now,
                   pulled, smtp_sessions, frame, last_error, thread_exc, stop_seen,
                   webVars, held>>

\* ret, frame = self.cap.read(); if not ret: break
ReadFail(w) ==
    /\ pc[w] = "body"
    /\ pc' = [pc EXCEPT ![w] = "exit_read"]
    /\ UNCHANGED <<detVars, cfgVars, taskVars, audioVars, envVars, histVars, running, cap, now,
                   pulled, smtp_sessions, frame, last_error, thread_exc, stop_seen,
                   webVars, held>>

\* One iteration of the loop body that gets a frame: total_frames += 1,
\* process_frame, imshow, waitKey ('q' quits, 's' saves a screenshot).
\* `faces` is what dlib finds in the frame.
LoopBody(w, faces, fault, key) ==
    /\ pc[w] = "body"
    /\ cap = "opened"
    /\ pulled < SourceLen
    /\ LET res == process_frame(DetState, faces, now, fault)
           exc == IF res.exc # "none" THEN res.exc
                  ELSE IF key = "s" /\ fault = "mkdir" THEN "mkdir_screenshots"
                  ELSE "none"
       IN  /\ total_frames' = total_frames + 1
           /\ pulled' = pulled + 1
           /\ frame' = faces
           /\ Commit(res, fault)
           /\ last_error' = IF exc # "none" THEN exc ELSE last_error
           /\ pc' = [pc EXCEPT ![w] = IF exc # "none" THEN "exit_error"
                                      ELSE IF key = "q" THEN "exit_quit"
                                      ELSE "top"]
    /\ UNCHANGED <<cfgVars, audioVars, envVars, running, cap, now, smtp_sessions,
                   thread_exc, stop_seen, webVars, stop_pending, stop_calls, process, proc>>
    /\ held' = IF reader.pc = "idle" THEN held
               ELSE held \cup {<<running, is_drowsy, total_frames + 1, drowsy_detections>>,
                               Fields'}

\* finally: self.cleanup(); the thread ends
Cleanup(w) ==
    /\ pc[w] \in ExitPcs
    /\ cap' = IF cap = "none" THEN "none" ELSE "closed"
    /\ pc' = [pc EXCEPT ![w] = "idle"]
    /\ stop_seen' = stop_seen \ {w}
    /\ UNCHANGED <<detVars, cfgVars, taskVars, audioVars, envVars, histVars, running, now,
                   pulled, smtp_sessions, frame, last_error, thread_exc,
                   webVars, held>>

\* faulty variant: stop_detection also returns the state machine to Alert
StopRequestReset ==
    /\ stop_calls = NotCounted \/ stop_calls < MaxStops
    /\ running' = FALSE
    /\ is_drowsy' = FALSE
    /\ eye_closed_frames' = 0
    /\ stop_calls' = IF stop_calls = NotCounted THEN NotCounted ELSE stop_calls + 1
    /\ stop_seen' = stop_seen \cup
                       {w \in Workers : running /\ pc[w] \in {"top", "body"}}
    /\ stop_pending' = IF stop_pending = Untracked THEN Untracked
                       ELSE {w \in Workers : pc[w] \in {"init", "opened"}}
    /\ UNCHANGED <<last_alert_time, last_email_time, total_frames, drowsy_detections,
                   handle_calls, faces_done, cfgVars, taskVars, audioVars, envVars, cap, pc, now,
                   pulled, smtp_sessions, frame, last_error, thread_exc,
                   webVars, dispatched, process, proc>>
    /\ held' = IF reader.pc = "idle" THEN held ELSE held \cup {Fields'}

\* DrowsinessDetector.stop_detection via web_interface.stop_detection
StopRequest ==
    /\ stop_calls = NotCounted \/ stop_calls < MaxStops
    /\ running' = FALSE
    /\ stop_calls' = IF stop_calls = NotCounted THEN NotCounted ELSE stop_calls + 1
    /\ stop_seen' = stop_seen \cup
                       {w \in Workers : running /\ pc[w] \in {"top", "body"}}
    /\ stop_pending' = IF stop_pending = Untracked THEN Untracked
                       ELSE {w \in Workers : pc[w] \in {"init", "opened"}}
    /\ UNCHANGED <<detVars, cfgVars, taskVars, audioVars, envVars, cap, pc, now,
                   pulled, smtp_sessions, frame, last_error, thread_exc,
                   webVars, dispatched, process, proc>>
    /\ held' = IF reader.pc = "idle" THEN held ELSE held \cup {Fields'}

\* One iteration of web_interface.generate_frames that gets a frame: it
\* runs process_frame on the shared detector and swallows what it raises.
StreamFrame(faces, fault) ==
    /\ cap = "opened"
    /\ pulled < SourceLen
    /\ pulled' = pulled + 1
    /\ frame' = faces
    /\ Commit(process_frame(DetState, faces, now, fault), fault)
    /\ UNCHANGED <<total_frames, cfgVars, audioVars, envVars, running, cap, pc, now,
                   smtp_sessions, last_error, thread_exc, stop_seen,
                   webVars, stop_pending, stop_calls, process, proc>>
    /\ held' = IF reader.pc = "idle" THEN held ELSE held \cup {Fields'}

(* ------------------------------------------------------------------ *)
(* process_frame statement by statement, for the threads that run it  *)
(* concurrently on one detector: the detection loop ("loop", thread   *)
(* w1) and generate_frames ("stream").  One face per frame.           *)
(* ------------------------------------------------------------------ *)
\* what no statement of process_frame or handle_drowsiness_detection writes
frameVars == <<cfgVars, audioVars, envVars, running, cap, now, smtp_sessions,
               last_error, thread_exc, stop_seen, webVars, stop_pending, stop_calls, process>>

\* next position of thread p
Goto(p, to) == proc' = [proc EXCEPT ![p].pc = to]

\* cap.read() returned a frame; `self.total_frames += 1` in the loop; the
\* face's EAR is computed and compared: `if current_ear < config.EAR_THRESHOLD`
ProcFrame(p, face) ==
    /\ proc[p].pc = "idle"
    /\ cap = "opened"
    /\ pulled < SourceLen
    /\ p = "loop" => pc["w1"] = "body"
    /\ pulled' = pulled + 1
    /\ frame' = <<face>>
    /\ faces_done' = 0
    /\ total_frames' = IF p = "loop" THEN total_frames + 1 ELSE total_frames
    /\ Goto(p, IF EyesClosed(face) THEN "incr" ELSE "clear")
    /\ held' = IF reader.pc = "idle" THEN held ELSE held \cup {Fields'}
    /\ UNCHANGED <<frameVars, is_drowsy, eye_closed_frames, last_alert_time,
                   last_email_time, drowsy_detections, handle_calls, taskVars, pc,
                   dispatched>>

\* else: self.eye_closed_frames = 0; self.is_drowsy = False
ProcClear(p) ==
    /\ proc[p].pc = "clear"
    /\ eye_closed_frames' = 0
    /\ is_drowsy' = FALSE
    /\ Goto(p, "return")
    /\ held' = IF reader.pc = "idle" THEN held ELSE held \cup {Fields'}
    /\ UNCHANGED <<frameVars, last_alert_time, last_email_time, total_frames,
                   drowsy_detections, handle_calls, faces_done, taskVars, pc, pulled,
                   frame, dispatched>>

\* self.eye_closed_frames += 1: the attribute is loaded ...
ProcIncrLoad(p) ==
    /\ proc[p].pc = "incr"
    /\ proc' = [proc EXCEPT ![p].pc = "incr_store", ![p].tmp = eye_closed_frames]
    /\ UNCHANGED <<frameVars, detVars, taskVars, pc, pulled, frame, dispatched, held>>

\* ... and the sum stored; `+=` on an attribute is no atomic operation
ProcIncrStore(p) ==
    /\ proc[p].pc = "incr_store"
    /\ eye_closed_frames' = proc[p].tmp + 1
    /\ Goto(p, "check")
    /\ UNCHANGED <<frameVars, is_drowsy, last_alert_time, last_email_time,
                   total_frames, drowsy_detections, handle_calls, faces_done,
                   taskVars, pc, pulled, frame, dispatched, held>>

\* if self.eye_closed_frames >= config.DROWSINESS_FRAMES_THRESHOLD:
\*     if not self.is_drowsy:
ProcCheck(p) ==
    /\ proc[p].pc = "check"
    /\ Goto(p, IF eye_closed_frames >= DROWSINESS_FRAMES_THRESHOLD /\ ~is_drowsy
               THEN "onset" ELSE "return")
    /\ UNCHANGED <<frameVars, detVars, taskVars, pc, pulled, frame, dispatched, held>>

\* self.is_drowsy = True, and the load of `self.drowsy_detections += 1`
ProcOnset(p) ==
    /\ proc[p].pc = "onset"
    /\ is_drowsy' = TRUE
    /\ proc' = [proc EXCEPT ![p].pc = "count_store", ![p].tmp = drowsy_detections]
    /\ held' = IF reader.pc = "idle" THEN held ELSE held \cup {Fields'}
    /\ UNCHANGED <<frameVars, eye_closed_frames, last_alert_time, last_email_time,
                   total_frames, drowsy_detections, handle_calls, faces_done, taskVars,
                   pc, pulled, frame, dispatched>>

\* the store of `self.drowsy_detections += 1`
ProcCountStore(p) ==
    /\ proc[p].pc = "count_store"
    /\ drowsy_detections' = proc[p].tmp + 1
    /\ Goto(p, "handle")
    /\ held' = IF reader.pc = "idle" THEN held ELSE held \cup {Fields'}
    /\ UNCHANGED <<frameVars, is_drowsy, eye_closed_frames, last_alert_time,
                   last_email_time, total_frames, handle_calls, faces_done, taskVars,
                   pc, pulled, frame, dispatched>>

\* handle_drowsiness_detection: current_time = time.time();
\* if current_time - self.last_alert_time > config.AUDIO_ALERT_COOLDOWN:
ProcHandle(p) ==
    /\ proc[p].pc = "handle"
    /\ handle_calls' = handle_calls + 1
    /\ proc' = [proc EXCEPT ![p].pc = IF now - last_alert_time > AUDIO_ALERT_COOLDOWN
                                       THEN "audio_start" ELSE "email_check",
                             ![p].t = now]
    /\ UNCHANGED <<frameVars, is_drowsy, eye_closed_frames, last_alert_time,
                   last_email_time, total_frames, drowsy_detections, faces_done,
                   taskVars, pc, pulled, frame, dispatched, held>>

\* threading.Thread(target=self.audio_alert.play_alert, daemon=True).start()
ProcAudioStart(p) ==
    /\ proc[p].pc = "audio_start"
    /\ audio_tasks' = [audio_tasks EXCEPT !["check"] = @ + 1]
    /\ dispatched' = [dispatched EXCEPT !.audio = proc[p].t]
    /\ Goto(p, "audio_set")
    /\ UNCHANGED <<frameVars, detVars, email_tasks, pc, pulled, frame, held>>

\* self.last_alert_time = current_time
ProcAudioSet(p) ==
    /\ proc[p].pc = "audio_set"
    /\ last_alert_time' = proc[p].t
    /\ Goto(p, "email_check")
    /\ UNCHANGED <<frameVars, is_drowsy, eye_closed_frames, last_email_time,
                   total_frames, drowsy_detections, handle_calls, faces_done,
                   taskVars, pc, pulled, frame, dispatched, held>>

\* if current_time - self.last_email_time > config.EMAIL_ALERT_COOLDOWN:
ProcEmailCheck(p) ==
    /\ proc[p].pc = "email_check"
    /\ Goto(p, IF proc[p].t - last_email_time > EMAIL_ALERT_COOLDOWN
               THEN "email_start" ELSE "return")
    /\ UNCHANGED <<frameVars, detVars, taskVars, pc, pulled, frame, dispatched, held>>

\* the snapshot is written and the email thread started
ProcEmailStart(p) ==
    /\ proc[p].pc = "email_start"
    /\ email_tasks' = [email_tasks EXCEPT ![TRUE] = @ + 1]
    /\ dispatched' = [dispatched EXCEPT !.email = proc[p].t]
    /\ Goto(p, "email_set")
    /\ UNCHANGED <<frameVars, detVars, audio_tasks, pc, pulled, frame, held>>

\* self.last_email_time = current_time
ProcEmailSet(p) ==
    /\ proc[p].pc = "email_set"
    /\ last_email_time' = proc[p].t
    /\ Goto(p, "return")
    /\ UNCHANGED <<frameVars, is_drowsy, eye_closed_frames, last_alert_time,
                   total_frames, drowsy_detections, handle_calls, faces_done,
                   taskVars, pc, pulled, frame, dispatched, held>>

\* process_frame returns; the loop shows the frame and is back at its top,
\* the stream yields it
ProcReturn(p) ==
    /\ proc[p].pc = "return"
    /\ proc' = [proc EXCEPT ![p] = NoProc]
    /\ faces_done' = 1
    /\ pc' = IF p = "loop" THEN [pc EXCEPT !["w1"] = "top"] ELSE pc
    /\ UNCHANGED <<frameVars, is_drowsy, eye_closed_frames, last_alert_time,
                   last_email_time, total_frames, drowsy_detections, handle_calls,
                   taskVars, pulled, frame, dispatched, held>>

\* the statements of thread p
Proc(p, faces) ==
    \/ \E face \in faces : ProcFrame(p, face)
    \/ ProcClear(p)
    \/ ProcIncrLoad(p)
    \/ ProcIncrStore(p)
    \/ ProcCheck(p)
    \/ ProcOnset(p)
    \/ ProcCountStore(p)
    \/ ProcHandle(p)
    \/ ProcAudioStart(p)
    \/ ProcAudioSet(p)
    \/ ProcEmailCheck(p)
    \/ ProcEmailStart(p)
    \/ ProcEmailSet(p)
    \/ ProcReturn(p)

\* web_interface.take_screenshot when it gets a frame: it reads the
\* detector's capture object and saves the raw frame; what it raises is
\* answered with an error message
TakeScreenshot ==
    /\ cap = "opened"
    /\ pulled < SourceLen
    /\ pulled' = pulled + 1
    /\ UNCHANGED <<detVars, cfgVars, taskVars, audioVars, envVars, histVars, running, cap, pc,
                   now, smtp_sessions, frame, last_error, thread_exc, stop_seen,
                   webVars, held>>

\* web_interface.get_status calls det.get_statistics()
StatusCall ==
    /\ reader.pc = "idle"
    /\ reader' = [NoRead EXCEPT !.pc = "total_frames"]
    /\ held' = {Fields}
    /\ UNCHANGED <<detVars, cfgVars, taskVars, audioVars, envVars, histVars, running, cap, pc,
                   now, pulled, smtp_sessions, frame, last_error, thread_exc,
                   stop_seen, detector, instances, main_detector, getters>>

\* the attribute reads of get_statistics, in the order of its dict display,
\* then `det.running` in get_status; no lock is held across them
StatusRead ==
    /\ reader.pc \in {"total_frames", "drowsy_detections", "current_status", "running"}
    /\ reader' =
           CASE reader.pc = "total_frames" ->
                    [reader EXCEPT !.total_frames = total_frames,
                                   !.pc = "drowsy_detections"]
             [] reader.pc = "drowsy_detections" ->
                    [reader EXCEPT !.drowsy_detections = drowsy_detections,
                                   !.pc = "current_status"]
             [] reader.pc = "current_status" ->
                    [reader EXCEPT !.is_drowsy = is_drowsy, !.pc = "running"]
             [] reader.pc = "running" ->
                    [reader EXCEPT !.running = running, !.pc = "done"]
    /\ UNCHANGED <<detVars, cfgVars, taskVars, audioVars, envVars, histVars, running, cap, pc,
                   now, pulled, smtp_sessions, frame, last_error, thread_exc,
                   stop_seen, detector, instances, main_detector, getters, held>>

\* get_status returns jsonify(...) of what it read
StatusReturn ==
    /\ reader.pc = "done"
    /\ reader' = NoRead
    /\ held' = {}
    /\ UNCHANGED <<detVars, cfgVars, taskVars, audioVars, envVars, histVars, running, cap, pc,
                   now, pulled, smtp_sessions, frame, last_error, thread_exc,
                   stop_seen, detector, instances, main_detector, getters>>

\* main.run_web_interface: `detector = DrowsinessDetector()` and a thread
\* running that object's start_detection, before app.run()
RunWebInterface ==
    /\ main_detector = "none"
    /\ main_detector' = "main"
    /\ instances' = instances \cup {"main"}
    /\ UNCHANGED <<detVars, cfgVars, taskVars, audioVars, envVars, histVars, running, cap, pc,
                   now, pulled, smtp_sessions, frame, last_error, thread_exc,
                   stop_seen, reader, detector, getters, held>>

\* main.run_detection_only: `detector = DrowsinessDetector()` was made at
\* the start; detector.start_detection() is called in the main thread
RunDetectionOnly ==
    /\ process = "cli"
    /\ pc["w1"] = "idle"
    /\ cap = "none"
    /\ pc' = [pc EXCEPT !["w1"] = "init"]
    /\ UNCHANGED <<detVars, cfgVars, taskVars, audioVars, envVars, histVars, running, cap,
                   now, pulled, smtp_sessions, frame, last_error, thread_exc,
                   stop_seen, webVars, held>>

\* main.run_detection_only after start_detection returned: detector.cleanup()
\* again, main() returns and the interpreter exits; the alert threads are
\* daemon threads, which end with the process wherever they stand
ProcessExit ==
    /\ process = "cli"
    /\ pc["w1"] = "idle"
    /\ cap # "none"
    /\ process' = "exited"
    /\ UNCHANGED <<detVars, cfgVars, taskVars, audioVars, envVars, running, cap, pc,
                   now, pulled, smtp_sessions, frame, last_error, thread_exc,
                   stop_seen, webVars, held, dispatched, stop_pending, stop_calls, proc>>

\* get_detector in request thread r: `if detector is None:`
GetDetectorCheck(r) ==
    /\ getters[r] = "idle"
    /\ getters' = [getters EXCEPT ![r] = IF detector = "none" THEN "create" ELSE "idle"]
    /\ UNCHANGED <<detVars, cfgVars, taskVars, audioVars, envVars, histVars, running, cap, pc,
                   now, pulled, smtp_sessions, frame, last_error, thread_exc,
                   stop_seen, reader, detector, instances, main_detector, held>>

\* get_detector in request thread r: `detector = DrowsinessDetector()`
GetDetectorCreate(r) ==
    /\ getters[r] = "create"
    /\ detector' = r
    /\ instances' = instances \cup {r}
    /\ getters' = [getters EXCEPT ![r] = "idle"]
    /\ UNCHANGED <<detVars, cfgVars, taskVars, audioVars, envVars, histVars, running, cap, pc,
                   now, pulled, smtp_sessions, frame, last_error, thread_exc,
                   stop_seen, reader, main_detector, held>>

\* time.time() advances
Tick ==
    /\ \E d \in TickSteps :
          /\ now + d <= StartTime + MaxElapsed
          /\ now' = now + d
    /\ UNCHANGED <<detVars, cfgVars, taskVars, audioVars, envVars, histVars, running, cap, pc,
                   pulled, smtp_sessions, frame, last_error, thread_exc, stop_seen,
                   webVars, held>>

(* ------------------------------------------------------------------ *)
(* Control surface: POST /api/config (src/web_interface.py)           *)
(* ------------------------------------------------------------------ *)
\* float(x) keeps the value of a number it accepts (values are in hundredths)
PyFloat(v) == v
\* int(x) truncates a non-negative number to whole units
PyInt(v) == v \div 100

ConfigData ==
    [ear : EarInputs, frames : FramesInputs,
     audio : AudioCooldownInputs, email : EmailCooldownInputs]
\* posts of one threshold, and of ear_threshold with a frames_threshold that
\* is missing or rejected
ThresholdData ==
    {d \in ConfigData : /\ d.audio = Absent /\ d.email = Absent
                         /\ (d.ear = Absent \/ d.frames \in {Absent, Bad})}
CooldownData ==
    {d \in ConfigData : d.ear = Absent /\ d.frames \in {Absent, 100}
                          /\ (d.frames = Absent \/ (d.audio = Absent /\ d.email = Absent))}

\* update_config: the keys present are converted and assigned in order; a
\* conversion that raises ends the handler, earlier assignments stay
update_config(data) ==
    LET ok1 == data.ear # Bad
        ok2 == ok1 /\ data.frames # Bad
    IN  /\ EAR_THRESHOLD' = IF data.ear \in {Absent, Bad} THEN EAR_THRESHOLD
                            ELSE PyFloat(data.ear)
        /\ DROWSINESS_FRAMES_THRESHOLD' =
               IF ~ok1 \/ data.frames \in {Absent, Bad} THEN DROWSINESS_FRAMES_THRESHOLD
               ELSE PyInt(data.frames)
        /\ AUDIO_ALERT_COOLDOWN' =
               IF ~ok2 \/ data.audio = Absent THEN AUDIO_ALERT_COOLDOWN
               ELSE PyInt(data.audio)
        /\ EMAIL_ALERT_COOLDOWN' =
               IF ~ok2 \/ data.email = Absent THEN EMAIL_ALERT_COOLDOWN
               ELSE PyInt(data.email)

UpdateConfig(data) ==
    /\ update_config(data)
    /\ UNCHANGED <<detVars, taskVars, audioVars, envVars, histVars, running, cap, pc, now,
                   pulled, smtp_sessions, frame, last_error, thread_exc, stop_seen,
                   webVars, held>>

(* ------------------------------------------------------------------ *)
(* Alert tasks (src/audio_alert.py, src/email_notifier.py)            *)
(* ------------------------------------------------------------------ *)
\* AudioAlert.system_beep: everything it does is inside its own try/except
system_beep(beep_fault) ==
    [out |-> IF beep_fault THEN "silent" ELSE "beep", exc |-> "none"]

\* The try/except of play_alert.  load_sound and generate_beep_sound return
\* None when the mixer is not initialized; sound.play() can raise, which the
\* except clause answers with system_beep().
play_alert(init, sound_ok, mixer_fault, beep_fault) ==
    LET sound == init /\ sound_ok
    IN  IF sound /\ init
        THEN IF mixer_fault THEN system_beep(beep_fault)
             ELSE [out |-> "sound", exc |-> "none"]
        ELSE system_beep(beep_fault)

SmtpFaults == {"none", "connect", "send"}

\* faulty variant: the credentials are not looked at before connecting
send_alert_unchecked(configured, smtp_fault) ==
    [sessions |-> IF smtp_fault = "connect" THEN 0 ELSE 1, exc |-> "none"]

\* EmailNotifier.send_alert: skip when a credential is empty, else open an
\* SMTP session and send; every exception is caught inside
send_alert(configured, smtp_fault) ==
    IF ~configured
    THEN [sessions |-> 0, exc |-> "none"]
    ELSE [sessions |-> IF smtp_fault = "connect" THEN 0 ELSE 1, exc |-> "none"]

\* play_alert: `if self.playing: return`
AudioCheck ==
    /\ audio_tasks["check"] > 0
    /\ IF playing
       THEN /\ audio_tasks' = [audio_tasks EXCEPT !["check"] = @ - 1]
            /\ audio_out' = "dropped"
       ELSE /\ audio_tasks' = [audio_tasks EXCEPT !["check"] = @ - 1, !["set"] = @ + 1]
            /\ audio_out' = audio_out
    /\ UNCHANGED <<detVars, cfgVars, email_tasks, playing, envVars, histVars, running, cap, pc,
                   now, pulled, smtp_sessions, frame, last_error, thread_exc, stop_seen,
                   webVars, held>>

\* play_alert: `self.playing = True`
AudioSet ==
    /\ audio_tasks["set"] > 0
    /\ audio_tasks' = [audio_tasks EXCEPT !["set"] = @ - 1, !["play"] = @ + 1]
    /\ playing' = TRUE
    /\ UNCHANGED <<detVars, cfgVars, email_tasks, audio_out, envVars, histVars, running, cap,
                   pc, now, pulled, smtp_sessions, frame, last_error, thread_exc, stop_seen,
                   webVars, held>>

\* play_alert: the try block, then `finally: self.playing = False`
AudioPlay(sound_ok, mixer_fault, beep_fault) ==
    /\ audio_tasks["play"] > 0
    /\ LET r == play_alert(initialized, sound_ok, mixer_fault, beep_fault)
       IN  /\ audio_out' = r.out
           /\ thread_exc' = IF r.exc = "none" THEN thread_exc ELSE r.exc
    /\ audio_tasks' = [audio_tasks EXCEPT !["play"] = @ - 1]
    /\ playing' = FALSE
    /\ UNCHANGED <<detVars, cfgVars, email_tasks, envVars, histVars, running, cap, pc, now,
                   pulled, smtp_sessions, frame, last_error, stop_seen,
                   webVars, held>>

\* The email thread runs send_alert(snapshot_path, current_time); `snapshot`
\* is whether cv2.imwrite had written the file
EmailTask(snapshot, smtp_fault) ==
    /\ email_tasks[snapshot] > 0
    /\ email_tasks' = [email_tasks EXCEPT ![snapshot] = @ - 1]
    /\ LET r == send_alert(email_configured, smtp_fault)
       IN  /\ smtp_sessions' = smtp_sessions + r.sessions
           /\ thread_exc' = IF r.exc = "none" THEN thread_exc ELSE r.exc
    /\ UNCHANGED <<detVars, cfgVars, audio_tasks, audioVars, envVars, histVars, running, cap,
                   pc, now, pulled, frame, last_error, stop_seen,
                   webVars, held>>

(* ------------------------------------------------------------------ *)
(* Specifications                                                     *)
(* ------------------------------------------------------------------ *)
\* web_interface's module global `detector` and the objects made so far;
\* d = "none": before the first get_detector()
InitSurface(d) ==
    /\ process = "web"
    /\ detector = d
    /\ instances = (IF d = "none" THEN {} ELSE {d})
    /\ main_detector = "none"
    /\ getters = [r \in Requests |-> "idle"]

InitWeb(d) ==
    /\ InitSurface(d)
    /\ stop_pending = Untracked
    /\ stop_calls = NotCounted

\* DrowsinessDetector.__init__, AudioAlert.__init__, EmailNotifier.__init__
InitDetector ==
    /\ is_drowsy = FALSE
    /\ eye_closed_frames = 0
    /\ last_alert_time = 0
    /\ last_email_time = 0
    /\ running = FALSE
    /\ total_frames = 0
    /\ drowsy_detections = 0
    /\ session_start_time = StartTime
    /\ cap = "none"
    /\ pc = [w \in Workers |-> "idle"]
    /\ audio_tasks = NoTasks
    /\ email_tasks = [b \in BOOLEAN |-> 0]
    /\ playing = FALSE
    /\ now = StartTime
    /\ pulled = 0
    /\ smtp_sessions = 0
    /\ frame = <<>>
    /\ handle_calls = 0
    /\ faces_done = 0
    /\ last_error = "none"
    /\ thread_exc = "none"
    /\ audio_out = "none"
    /\ stop_seen = {}
    /\ reader = NoRead
    /\ held = {}
    /\ dispatched = [audio |-> 0, email |-> 0]
    /\ proc = [p \in Procs |-> NoProc]

\* the defaults of config.py
InitConfig ==
    /\ EAR_THRESHOLD = DefaultEarThreshold
    /\ DROWSINESS_FRAMES_THRESHOLD = DefaultFramesThreshold
    /\ AUDIO_ALERT_COOLDOWN = DefaultAudioCooldown
    /\ EMAIL_ALERT_COOLDOWN = DefaultEmailCooldown

\* pygame.mixer.init() succeeded or not; the three credentials are set or not
InitEnv(inits, creds) ==
    /\ initialized \in inits
    /\ email_configured \in creds

Init ==
    /\ InitDetector
    /\ InitConfig
    /\ InitEnv({TRUE}, {TRUE})
    /\ InitWeb("web")
    /\ script = <<>>

\* the steps of detection thread w, its frames drawn from `frames` and the
\* failures of an iteration from `faults`
Worker(w, frames, faults) ==
    \/ \E openable \in SUBSET CameraIndices : InitCamera(w, openable)
    \/ SetRunning(w)
    \/ LoopTop(w)
    \/ ReadFail(w)
    \/ \E faces \in frames, env \in IterEnvs(faults) :
           LoopBody(w, faces, env.fault, env.key)
    \/ Cleanup(w)

AlertTasks ==
    \/ AudioCheck
    \/ AudioSet
    \/ \E sound_ok \in BOOLEAN, mixer_fault \in BOOLEAN, beep_fault \in BOOLEAN :
           AudioPlay(sound_ok, mixer_fault, beep_fault)
    \/ \E snapshot \in BOOLEAN, smtp_fault \in SmtpFaults : EmailTask(snapshot, smtp_fault)

\* The detection state machine: one detection thread and the live stream
\* feed frames of up to two faces while the control surface starts, stops
\* and reconfigures the thresholds.
Next ==
    \/ StartRequest({"w1"})
    \/ StopRequest
    \/ \E data \in ThresholdData : UpdateConfig(data)
    \/ Worker("w1", Frames, DirectoryFaults)
    \/ \E faces \in Frames, fault \in DirectoryFaults : StreamFrame(faces, fault)

Spec == Init /\ [][Next]_vars

\* Session lifecycle: the control surface starts and stops detection at
\* will, every accepted start request gets a thread of its own.
NextLifecycle ==
    \/ StartRequest(Workers)
    \/ StopRequest
    \/ \E w \in Workers : Worker(w, {<<>>, <<<<30, 30>>>>}, {"none"})

SpecLifecycle == Init /\ [][NextLifecycle]_vars

\* Alert dispatch: onsets at different times, under every cooldown setting,
\* launch failure, audio backend and mail configuration; the alert tasks run.
InitAlerts ==
    /\ InitDetector
    /\ InitConfig
    /\ InitEnv(BOOLEAN, BOOLEAN)
    /\ InitWeb("web")
    /\ script = <<>>

NextAlerts ==
    \/ StartRequest({"w1"})
    \/ \E data \in CooldownData : UpdateConfig(data)
    \/ Worker("w1", {<<<<20, 20>>>>, <<<<30, 30>>>>}, Faults)
    \/ AlertTasks
    \/ Tick

SpecAlerts == InitAlerts /\ [][NextAlerts]_vars

\* The control surface beside a session: the live stream and screenshot
\* requests run while the detection thread processes frames.
SurfaceFrames == {<<<<20, 20>>>>, <<<<30, 30>>>>}
LowerThreshold == [ear |-> Absent, frames |-> 100, audio |-> Absent, email |-> Absent]
NextSurface ==
    \/ StartRequest({"w1"})
    \/ StopRequest
    \/ UpdateConfig(LowerThreshold)
    \/ Worker("w1", SurfaceFrames, {"none"})
    \/ \E faces \in SurfaceFrames : StreamFrame(faces, "none")
    \/ TakeScreenshot

SpecSurface == Init /\ [][NextSurface]_vars

\* Status requests served while the detection thread processes frames.
NextStatus ==
    \/ StartRequest({"w1"})
    \/ StopRequest
    \/ UpdateConfig(LowerThreshold)
    \/ Worker("w1", {<<<<20, 20>>>>}, {"none"})
    \/ StatusCall
    \/ StatusRead
    \/ StatusReturn

SpecStatus == Init /\ [][NextStatus]_vars

\* Configuration posts of any JSON number: thresholds of 0, 0.5 and 1.5 too.
BoundsData ==
    [ear : {Absent, 0, 25, 150}, frames : {Absent, 0, 50, 100},
     audio : {Absent}, email : {Absent}]
NextConfig ==
    \/ StartRequest({"w1"})
    \/ \E data \in BoundsData : UpdateConfig(data)
    \/ Worker("w1", SurfaceFrames, {"none"})

SpecConfig == Init /\ [][NextConfig]_vars

\* Alert dispatch under concurrency: the detection loop and the live stream
\* both run process_frame on the detector, statement by statement.
NextDispatch ==
    \/ StartRequest({"w1"})
    \/ \E openable \in {{}, {0}} : InitCamera("w1", openable)
    \/ SetRunning("w1")
    \/ LoopTop("w1")
    \/ UpdateConfig(LowerThreshold)
    \/ \E p \in Procs : Proc(p, {<<20, 20>>, <<30, 30>>})
    \/ Tick

SpecDispatch == Init /\ [][NextDispatch]_vars

\* The detection thread under fair scheduling, beside alert tasks that take
\* arbitrarily long: the tasks are under no fairness condition.
NextNonBlocking ==
    \/ StartRequest({"w1"})
    \/ UpdateConfig(LowerThreshold)
    \/ Worker("w1", SurfaceFrames, {"none"})
    \/ AlertTasks

SpecNonBlocking ==
    /\ Init
    /\ [][NextNonBlocking]_vars
    /\ WF_vars(Worker("w1", SurfaceFrames, {"none"}))

\* The program in command-line mode (main.py --mode cli): one session in
\* the main thread, then the process exits.
InitCli ==
    /\ InitDetector
    /\ InitEnv({TRUE}, {TRUE})
    /\ EAR_THRESHOLD = DefaultEarThreshold
    /\ DROWSINESS_FRAMES_THRESHOLD \in 1..2
    /\ AUDIO_ALERT_COOLDOWN = DefaultAudioCooldown
    /\ EMAIL_ALERT_COOLDOWN = DefaultEmailCooldown
    /\ script = <<>>
    /\ process = "cli"
    /\ detector = "none"
    /\ instances = {"main"}
    /\ main_detector = "main"
    /\ getters = [r \in Requests |-> "idle"]
    /\ stop_pending = Untracked
    /\ stop_calls = NotCounted

NextCli ==
    \/ RunDetectionOnly
    \/ /\ process = "cli"
       /\ \/ Worker("w1", SurfaceFrames, {"none"})
          \/ AlertTasks
    \/ ProcessExit

SpecCli == InitCli /\ [][NextCli]_vars

\* Start and stop requests racing with the start of a detection thread;
\* the threads a stop request finds before `self.running = True` are observed.
InitStopRace ==
    /\ InitDetector
    /\ InitConfig
    /\ InitEnv({TRUE}, {TRUE})
    /\ InitSurface("web")
    /\ stop_pending = {}
    /\ stop_calls = NotCounted
    /\ script = <<>>

SpecStopRace == InitStopRace /\ [][NextLifecycle]_vars

\* One session under start and stop requests, the calls of stop_detection()
\* counted: stops arrive while the loop runs, after it has ended and before
\* any start.
InitStop ==
    /\ InitDetector
    /\ InitConfig
    /\ InitEnv({TRUE}, {TRUE})
    /\ InitSurface("web")
    /\ stop_pending = Untracked
    /\ stop_calls = 0
    /\ script = <<>>

NextStop ==
    \/ StartRequest({"w1"})
    \/ StopRequest
    \/ UpdateConfig(LowerThreshold)
    \/ Worker("w1", SurfaceFrames, {"none"})

SpecStop == InitStop /\ [][NextStop]_vars

\* The program from its start in web mode: run_web_interface, then request
\* threads that fetch the detector and serve /api/status from it.
InitInstances ==
    /\ InitDetector
    /\ InitConfig
    /\ InitEnv({TRUE}, {TRUE})
    /\ InitWeb("none")
    /\ script = <<>>

NextInstances ==
    \/ RunWebInterface
    \/ \E r \in Requests : GetDetectorCheck(r)
    \/ \E r \in Requests : GetDetectorCreate(r)
    \/ (detector # "none" /\ StatusCall)
    \/ StatusRead
    \/ StatusReturn

SpecInstances == InitInstances /\ [][NextInstances]_vars

\* all sequences of length n over S
RECURSIVE SeqsOfLen(_, _)
SeqsOfLen(S, n) ==
    IF n = 0 THEN {<<>>}
    ELSE {Append(q, x) : q \in SeqsOfLen(S, n - 1), x \in S}

\* The counters under concurrency: the detection loop and the live stream
\* process the frames of a scripted source, statement by statement.
MaxCounterFrames == 4
InitCounters ==
    /\ InitDetector
    /\ InitEnv({TRUE}, {TRUE})
    /\ InitWeb("web")
    /\ EAR_THRESHOLD = DefaultEarThreshold
    /\ DROWSINESS_FRAMES_THRESHOLD = 1
    /\ AUDIO_ALERT_COOLDOWN = DefaultAudioCooldown
    /\ EMAIL_ALERT_COOLDOWN = DefaultEmailCooldown
    /\ script \in SeqsOfLen({<<<<20, 20>>>>, <<<<30, 30>>>>}, MaxCounterFrames)

NextCounters ==
    \/ StartRequest({"w1"})
    \/ InitCamera("w1", {0})
    \/ SetRunning("w1")
    \/ LoopTop("w1")
    \/ /\ pulled < Len(script)
       /\ \E p \in Procs : Proc(p, {script[pulled + 1][1]})
    \/ /\ pulled >= Len(script)
       /\ \E p \in Procs : Proc(p, {})

SpecCounters == InitCounters /\ [][NextCounters]_vars

\* A session fed scripted eye geometries, one face per frame: the distances
\* A, B, C of each eye in pixels, chosen so that the EAR is a whole number of
\* hundredths (0.20, 0.30) or has a zero eye width.
MaxGeometry == 3
Eyes == {[A |-> 10, B |-> 10, C |-> 50], [A |-> 15, B |-> 15, C |-> 50],
         [A |-> 10, B |-> 10, C |-> 0], [A |-> 0, B |-> 0, C |-> 0]}
GeometryFaces ==
    {<<e, e>> : e \in Eyes} \cup
        {<<[A |-> 10, B |-> 10, C |-> 50], [A |-> 10, B |-> 10, C |-> 0]>>}
\* left_ear = self.calculate_ear(left_eye); right_ear likewise
FaceOf(g) == <<calculate_ear(g[1]), calculate_ear(g[2])>>

InitGeometry ==
    /\ InitDetector
    /\ InitEnv({TRUE}, {TRUE})
    /\ InitWeb("web")
    /\ EAR_THRESHOLD = DefaultEarThreshold
    /\ DROWSINESS_FRAMES_THRESHOLD \in 1..2
    /\ AUDIO_ALERT_COOLDOWN = DefaultAudioCooldown
    /\ EMAIL_ALERT_COOLDOWN = DefaultEmailCooldown
    /\ script \in SeqsOfLen(GeometryFaces, MaxGeometry)

NextGeometry ==
    \/ StartRequest({"w1"})
    \/ /\ pulled < Len(script)
       /\ Worker("w1", {<<FaceOf(script[pulled + 1])>>}, {"none"})
    \/ /\ pulled >= Len(script)
       /\ Worker("w1", {<<>>}, {"none"})

SpecGeometry == InitGeometry /\ [][NextGeometry]_vars

\* A session fed a scripted EAR sequence, one face (or none) per frame.
NoFace == <<>>
Ear(v) == <<<<v, v>>>>
ConcreteScript == <<Ear(30), Ear(20), Ear(18), Ear(19), Ear(30)>>
Scripts == SeqsOfLen({NoFace, Ear(20), Ear(30)}, MaxScript) \cup {ConcreteScript}

InitRun ==
    /\ InitDetector
    /\ InitEnv({TRUE}, {TRUE})
    /\ InitWeb("web")
    /\ EAR_THRESHOLD = DefaultEarThreshold
    /\ DROWSINESS_FRAMES_THRESHOLD \in 1..MaxThreshold
    /\ AUDIO_ALERT_COOLDOWN = DefaultAudioCooldown
    /\ EMAIL_ALERT_COOLDOWN = DefaultEmailCooldown
    /\ script \in Scripts

NextRun ==
    \/ StartRequest({"w1"})
    \/ /\ pulled < Len(script)
       /\ Worker("w1", {script[pulled + 1]}, RaisingFaults)
    \/ /\ pulled >= Len(script)
       /\ Worker("w1", {NoFace}, {"none"})

SpecRun == InitRun /\ [][NextRun]_vars

(* ------------------------------------------------------------------ *)
(* Properties of the detection state machine                          *)
(* ------------------------------------------------------------------ *)
\* the scripted frames the source has delivered so far
Seen == SubSeq(script, 1, pulled)
\* the one face of a scripted frame has a mean EAR below the threshold
LowFrame(fr) == fr # NoFace /\ fr[1][1] + fr[1][2] < 2 * EAR_THRESHOLD
\* length of the run of low-EAR frames that ends at position i of p
RECURSIVE LowRun(_, _)
LowRun(p, i) == IF i = 0 \/ ~LowFrame(p[i]) THEN 0 ELSE 1 + LowRun(p, i - 1)
\* positions of p at which a run of low-EAR frames reaches the threshold
OnsetFrames(p) == {i \in 1..Len(p) : LowRun(p, i) = DROWSINESS_FRAMES_THRESHOLD}
\* what the detector must hold after the one-face frames p
TracksRuns(p) ==
    /\ eye_closed_frames = LowRun(p, Len(p))
    /\ is_drowsy <=> LowRun(p, Len(p)) >= DROWSINESS_FRAMES_THRESHOLD
    /\ drowsy_detections = Cardinality(OnsetFrames(p))
    /\ handle_calls = Cardinality(OnsetFrames(p))

\* C1 (onset edge-trigger): with one worker and one face per frame, every
\* run of low-EAR frames that starts with the counter at 0 produces one
\* onset (is_drowsy set, drowsy_detections + 1, one call of
\* handle_drowsiness_detection) exactly at the frame where the run reaches
\* DROWSINESS_FRAMES_THRESHOLD, and the state is Alert again after the next
\* frame at or above EAR_THRESHOLD.  For threshold 3 and EARs
\* [0.30, 0.20, 0.18, 0.19, 0.30] the onset is at the 4th frame, the clear at
\* the 5th.
OnsetEdgeTrigger ==
    (\A i \in 1..pulled : script[i] # NoFace) =>
        /\ TracksRuns(Seen)
        /\ (script = ConcreteScript /\ DROWSINESS_FRAMES_THRESHOLD = 3) =>
               /\ drowsy_detections = (IF pulled >= 4 THEN 1 ELSE 0)
               /\ handle_calls = drowsy_detections
               /\ is_drowsy <=> pulled = 4

OnsetEdgeTriggerWitness ==
    /\ script = ConcreteScript
    /\ DROWSINESS_FRAMES_THRESHOLD = 3
    /\ pulled = 5
    /\ drowsy_detections = 1
    /\ handle_calls = 1
    /\ ~is_drowsy
    /\ eye_closed_frames = 0

\* a frame was pulled from the source and processed in this step
FrameProcessed == pulled' = pulled + 1
AllFacesLow(fr) ==
    fr # <<>> /\ \A i \in 1..Len(fr) : fr[i][1] + fr[i][2] < 2 * EAR_THRESHOLD
FaceOpen(face) == face[1] + face[2] >= 2 * EAR_THRESHOLD

\* C2 (no re-trigger): a frame whose faces all have EAR < EAR_THRESHOLD,
\* processed while the state is Drowsy, is no onset: drowsy_detections is
\* unchanged, handle_drowsiness_detection is not called, nothing is launched
\* and the state stays Drowsy; and one frame of low-EAR faces is never more
\* than one onset.
NoRetrigger ==
    [][(FrameProcessed /\ AllFacesLow(frame')) =>
           /\ drowsy_detections' <= drowsy_detections + 1
           /\ is_drowsy =>
                  /\ is_drowsy'
                  /\ drowsy_detections' = drowsy_detections
                  /\ handle_calls' = handle_calls
                  /\ UNCHANGED <<last_alert_time, last_email_time, taskVars>>]_vars

NoRetriggerWitness ==
    /\ is_drowsy
    /\ DROWSINESS_FRAMES_THRESHOLD = 1
    /\ eye_closed_frames = 3
    /\ pulled = 3
    /\ drowsy_detections = 1
    /\ handle_calls = 1

\* C3 (detection state invariant): in every reachable state, is_drowsy
\* implies eye_closed_frames >= the current DROWSINESS_FRAMES_THRESHOLD.
DrowsyImpliesThresholdReached ==
    is_drowsy => eye_closed_frames >= DROWSINESS_FRAMES_THRESHOLD

\* C4 (clear rule): a face with EAR >= EAR_THRESHOLD, equal included, leaves
\* eye_closed_frames = 0 and is_drowsy = FALSE whatever the state was, and a
\* frame of such faces is silent: drowsy_detections, the calls of
\* handle_drowsiness_detection, both last-fired timestamps and the alert
\* tasks are unchanged.
ClearRule ==
    [][(FrameProcessed /\ frame' # <<>>) =>
           /\ (faces_done' = Len(frame') /\ FaceOpen(frame'[Len(frame')])) =>
                  (eye_closed_frames' = 0 /\ ~is_drowsy')
           /\ (\A i \in 1..Len(frame') : FaceOpen(frame'[i])) =>
                  UNCHANGED <<drowsy_detections, handle_calls, last_alert_time,
                              last_email_time, taskVars>>]_vars

ClearRuleWitness ==
    /\ frame = <<<<20, 30>>>>
    /\ EAR_THRESHOLD = 25
    /\ pulled = 2
    /\ drowsy_detections = 1
    /\ ~is_drowsy
    /\ eye_closed_frames = 0

\* the scripted frames seen so far, those without a face left out
SeenFaces == SelectSeq(Seen, LAMBDA fr : fr # NoFace)

\* C5 (no-face frames): a frame with no detected face leaves
\* eye_closed_frames, is_drowsy, drowsy_detections and both last-fired
\* timestamps unchanged, so the detector is where the frames with a face
\* alone would have put it: the onset is at the
\* DROWSINESS_FRAMES_THRESHOLD-th low-EAR frame of a run, whatever no-face
\* frames lie inside the run.
NoFaceFrames ==
    /\ [][(FrameProcessed /\ script[pulled + 1] = NoFace) =>
              UNCHANGED <<eye_closed_frames, is_drowsy, drowsy_detections,
                          handle_calls, last_alert_time, last_email_time>>]_vars
    /\ []TracksRuns(SeenFaces)

NoFaceFramesWitness ==
    /\ DROWSINESS_FRAMES_THRESHOLD = 2
    /\ pulled = 3
    /\ SubSeq(script, 1, 3) = <<Ear(20), NoFace, Ear(20)>>
    /\ is_drowsy
    /\ eye_closed_frames = 2
    /\ drowsy_detections = 1

(* ------------------------------------------------------------------ *)
(* Properties of the alert dispatcher and the alert tasks             *)
(* ------------------------------------------------------------------ *)
\* handle_drowsiness_detection was called in this step
OnsetHandled == handle_calls' = handle_calls + 1
\* the cooldown of a channel has elapsed at the time of the call
AudioDue == now - last_alert_time > AUDIO_ALERT_COOLDOWN
EmailDue == now - last_email_time > EMAIL_ALERT_COOLDOWN
\* alert tasks that are launched and have not ended
AudioInFlight(tasks) == tasks["check"] + tasks["set"] + tasks["play"]
EmailInFlight(tasks) == tasks[TRUE] + tasks[FALSE]
\* the step launched a channel's background task
AudioLaunched == AudioInFlight(audio_tasks') = AudioInFlight(audio_tasks) + 1
EmailLaunched == EmailInFlight(email_tasks') = EmailInFlight(email_tasks) + 1

\* C6 (cooldown rule): on every onset handled at time now, each channel's
\* task is launched iff now - lastFired > cooldown (strictly); lastFired
\* becomes now when it is launched and is unchanged when it is not.
CooldownRule ==
    [][OnsetHandled =>
           /\ AudioLaunched <=> AudioDue
           /\ last_alert_time' = (IF AudioDue THEN now ELSE last_alert_time)
           /\ EmailLaunched <=> EmailDue
           /\ last_email_time' = (IF EmailDue THEN now ELSE last_email_time)]_vars

\* C7 (cooldown independence): a channel whose own cooldown has elapsed
\* fires on an onset whatever the other channel does; with the cooldowns 5 s
\* and 60 s, the first onset fires both channels and an onset 10 s after it
\* fires audio and not email.
CooldownIndependence ==
    [][OnsetHandled =>
           /\ AudioDue => AudioLaunched
           /\ EmailDue => EmailLaunched
           /\ (/\ AUDIO_ALERT_COOLDOWN = DefaultAudioCooldown
               /\ EMAIL_ALERT_COOLDOWN = DefaultEmailCooldown) =>
                  /\ handle_calls = 0 => (AudioLaunched /\ EmailLaunched)
                  /\ (handle_calls = 1 /\ now - last_alert_time = 10) =>
                         (AudioLaunched /\ (now - last_email_time = 10 => ~EmailLaunched))]_vars

\* C8 (channel failure isolation): no failure of a channel on an onset
\* (directory creation, snapshot write, task launch) ends the detection
\* loop, and a channel that failed to launch does not keep the other
\* channel from being dispatched on that onset.
ChannelFailureIsolation ==
    [][OnsetHandled =>
           /\ \A w \in Workers :
                  pc[w] = "body" =>
                      ~(/\ pc'[w] = "exit_error"
                        /\ last_error' \in {"thread_start", "mkdir_snapshots"})
           /\ (AudioDue /\ ~AudioLaunched /\ EmailDue) => EmailLaunched]_vars

\* an alert task ran to its end in this step
EmailTaskRan == EmailInFlight(email_tasks') = EmailInFlight(email_tasks) - 1
AudioPlayRan == audio_tasks'["play"] = audio_tasks["play"] - 1

\* C9 (unavailable resource is skipped, not raised): with a credential
\* missing the email task opens no SMTP session and raises nothing; with the
\* mixer uninitialized the audio task raises nothing and ends with playing
\* reset; neither touches the detector, the loop or the running flag.
UnavailableResourceSkipped ==
    [][/\ (EmailTaskRan /\ ~email_configured) =>
              /\ smtp_sessions' = smtp_sessions
              /\ thread_exc' = "none"
              /\ UNCHANGED <<detVars, running, cap, pc, last_error>>
       /\ (AudioPlayRan /\ ~initialized) =>
              /\ audio_out' \in {"beep", "silent"}
              /\ thread_exc' = "none"
              /\ ~playing'
              /\ UNCHANGED <<detVars, running, cap, pc, last_error>>]_vars

UnavailableResourceSkippedWitness ==
    /\ ~email_configured
    /\ ~initialized
    /\ handle_calls = 1
    /\ last_alert_time = now
    /\ last_email_time = now
    /\ AudioInFlight(audio_tasks) = 0
    /\ EmailInFlight(email_tasks) = 0
    /\ audio_out \in {"beep", "silent"}
    /\ smtp_sessions = 0
    /\ thread_exc = "none"
    /\ running
    /\ pc["w1"] = "body"
    /\ total_frames = 2

\* C10 (stop latency): a loop that was running when stop_detection() was
\* called begins no new iteration once it is back at `while self.running`:
\* it completes at most the frame it was processing.
StopLatency ==
    [][\A w \in Workers :
           (w \in stop_seen /\ pc[w] = "top") => pc'[w] # "body"]_vars

(* ------------------------------------------------------------------ *)
(* Properties of the session lifecycle and the control surface        *)
(* ------------------------------------------------------------------ *)
\* C11 (session lifecycle): whenever no detection loop is alive, whatever
\* ended the last one (stop, a failed read, an exception, the quit key), the
\* session is Idle: the running flag, which /api/status reports and
\* /api/start tests, is False.
IdleWhenLoopEnded ==
    (\A w \in Workers : pc[w] = "idle") => ~running

LoopIteration == \E w \in Workers : pc[w] = "body" /\ pc'[w] # "body"

\* C13 (aggregator exactness): the counters get_statistics reports change
\* only by the worker processing a frame, total_frames by one per frame and
\* drowsy_detections by the onsets in that frame, so after N frames with D
\* onsets they are N and D whatever status and live-stream reads interleave.
AggregatorExact ==
    [][(total_frames' # total_frames \/ drowsy_detections' # drowsy_detections) =>
           /\ LoopIteration
           /\ total_frames' = total_frames + 1
           /\ drowsy_detections' \in {drowsy_detections, drowsy_detections + 1}]_vars

\* C14 (consistent snapshot): the tuple (running, current_status,
\* total_frames, drowsy_detections) a status request returns is one the
\* detector held at a single instant between the call and the return.
ConsistentSnapshot ==
    reader.pc = "done" =>
        <<reader.running, reader.is_drowsy, reader.total_frames,
          reader.drowsy_detections>> \in held

\* C15 (single video-source owner): while a detection loop is alive, every
\* frame read from the detector's capture object is read by that loop; the
\* live stream and the screenshot request do not read the handle.
SingleSourceOwner ==
    [][((\E w \in Workers : pc[w] \in {"top", "body"}) /\ pulled' = pulled + 1) =>
           LoopIteration]_vars

\* C16 (sole mutator): the detection state (eye_closed_frames, is_drowsy,
\* both last-fired timestamps) and the counters total_frames and
\* drowsy_detections are written by the detection loop only.
SoleMutator ==
    [][<<eye_closed_frames, is_drowsy, last_alert_time, last_email_time,
         total_frames, drowsy_detections>>' #
       <<eye_closed_frames, is_drowsy, last_alert_time, last_email_time,
         total_frames, drowsy_detections>> => LoopIteration]_vars

\* C17 (configuration bounds): in every reachable state, after any accepted
\* configuration updates, 0 < EAR_THRESHOLD < 1 (in hundredths: below 100)
\* and DROWSINESS_FRAMES_THRESHOLD >= 1.
ConfigurationBounds ==
    /\ 0 < EAR_THRESHOLD
    /\ EAR_THRESHOLD < 100
    /\ DROWSINESS_FRAMES_THRESHOLD >= 1

\* a scripted face has an eye whose corner points coincide
Degenerate(g) == g[1].C = 0 \/ g[2].C = 0

\* C18 (degenerate geometry): a frame whose face has an eye of width 0 is a
\* non-triggering reading: eye_closed_frames is not incremented, no onset is
\* emitted (drowsy_detections and the calls of handle_drowsiness_detection
\* are unchanged, nothing is launched) and the detection loop does not end
\* on an error of the frame's processing.
DegenerateGeometry ==
    [][(pulled' = pulled + 1 /\ Degenerate(script[pulled + 1])) =>
           /\ eye_closed_frames' <= eye_closed_frames
           /\ UNCHANGED <<drowsy_detections, handle_calls, taskVars,
                          last_alert_time, last_email_time>>
           /\ \A w \in Workers :
                  pc'[w] = "exit_error" => last_error' = "mkdir_screenshots"]_vars

DegenerateGeometryWitness ==
    /\ pulled = 2
    /\ ~Degenerate(script[1])
    /\ Degenerate(script[2])
    /\ drowsy_detections = 1
    /\ ~is_drowsy
    /\ eye_closed_frames = 0
    /\ pc["w1"] = "top"

\* C19 (one logical worker): under every interleaving of start and stop
\* requests at most one detection loop is alive for the detector.
OneLogicalWorker ==
    Cardinality({w \in Workers : pc[w] \in {"top", "body"}}) <= 1

\* C20 (single shared detector instance): at most one DrowsinessDetector
\* object exists, and the one the request handlers get from get_detector is
\* the one whose detection loop run_web_interface started.
SingleSharedInstance ==
    /\ Cardinality(instances) <= 1
    /\ (detector # "none" /\ main_detector # "none") => detector = main_detector

(* ------------------------------------------------------------------ *)
(* Properties of dispatch, sessions and tasks under concurrency       *)
(* ------------------------------------------------------------------ *)
\* C21 (minimum spacing of dispatches): whenever a channel's task is
\* dispatched, more than the channel's cooldown has passed since the
\* previous dispatch of that channel, whether or not that task has ended.
MinimumSpacing ==
    [][/\ AudioLaunched => now - dispatched.audio > AUDIO_ALERT_COOLDOWN
       /\ EmailLaunched => now - dispatched.email > EMAIL_ALERT_COOLDOWN]_vars

\* C22 (read failure is fatal to the session): an iteration whose pull
\* returns no frame ends the loop at once: the pull is not counted in
\* total_frames, no field of the detection state changes and nothing is
\* launched; the thread then pulls and processes no further frame, and its
\* cleanup releases the video source.
ReadFailureIsFatal ==
    [][\A w \in Workers :
           /\ (pc[w] = "body" /\ pc'[w] # "body" /\ pulled' = pulled) =>
                  /\ pc'[w] = "exit_read"
                  /\ UNCHANGED <<detVars, taskVars, frame, cap>>
           /\ pc[w] = "exit_read" =>
                  /\ pc'[w] = "idle"
                  /\ cap' = "closed"
                  /\ UNCHANGED <<detVars, taskVars, frame, pulled>>]_vars

ReadFailureIsFatalWitness ==
    /\ pc["w1"] = "exit_read"
    /\ cap = "opened"
    /\ running
    /\ pulled = 2
    /\ total_frames = 2
    /\ Len(script) > 2
    /\ is_drowsy

\* C23 (monotone counters): no step of any execution decreases total_frames
\* or drowsy_detections; each step leaves them unchanged or adds exactly 1,
\* also while the live stream processes frames beside the loop.
MonotoneCounters ==
    [][/\ total_frames' \in {total_frames, total_frames + 1}
       /\ drowsy_detections' \in {drowsy_detections, drowsy_detections + 1}]_vars

\* C24 (non-blocking dispatch): the call of handle_drowsiness_detection
\* only launches the alert tasks, it runs no part of them and the iteration
\* ends with it; and the detection thread, scheduled fairly, always advances
\* from the top of its loop and from its body, however long the tasks
\* launched earlier stay in flight.
NonBlockingDispatch ==
    /\ [][OnsetHandled =>
              /\ UNCHANGED <<audioVars, smtp_sessions, thread_exc>>
              /\ audio_tasks'["set"] = audio_tasks["set"]
              /\ audio_tasks'["play"] = audio_tasks["play"]
              /\ pc'["w1"] # "body"]_vars
    /\ (pc["w1"] = "top") ~> (pc["w1"] # "top")
    /\ (pc["w1"] = "body") ~> (pc["w1"] # "body")

NonBlockingDispatchWitness ==
    /\ audio_tasks["check"] = 1
    /\ EmailInFlight(email_tasks) = 1
    /\ audio_out = "none"
    /\ smtp_sessions = 0
    /\ total_frames = 3
    /\ drowsy_detections = 2
    /\ is_drowsy
    /\ pc["w1"] = "top"

\* C25 (alerts survive stop): the end of the session (stop, loop exit,
\* cleanup, the launcher's return) takes no alert task out of flight, and
\* every dispatched task runs to its end: none is left in flight when the
\* program has ended.
AlertsSurviveStop ==
    /\ [][((\E w \in Workers : pc'[w] # pc[w] /\ pc'[w] \in ExitPcs \cup {"idle"})
             \/ running # running' \/ process' # process) =>
              /\ AudioInFlight(audio_tasks') >= AudioInFlight(audio_tasks)
              /\ EmailInFlight(email_tasks') >= EmailInFlight(email_tasks)
              /\ UNCHANGED audioVars]_vars
    /\ [](process = "exited" =>
              /\ AudioInFlight(audio_tasks) = 0
              /\ EmailInFlight(email_tasks) = 0)

\* the transition rule applied once, with the EAR of face alone, to the
\* state before the frame
RuleOnce(face) ==
    LET low == ~FaceOpen(face)
        onset == low /\ eye_closed_frames + 1 >= DROWSINESS_FRAMES_THRESHOLD /\ ~is_drowsy
    IN  [eye_closed_frames |-> IF low THEN eye_closed_frames + 1 ELSE 0,
         is_drowsy |-> low /\ (is_drowsy \/ onset),
         onsets |-> IF onset THEN 1 ELSE 0]

\* C26 (multiple faces): after an iteration of the loop on a frame with two
\* or more faces, eye_closed_frames and is_drowsy are, and an onset is emitted, as if the
\* transition rule had been applied once with the last face's EAR alone; so
\* eye_closed_frames grows by at most 1 per frame.
LastFaceDrives ==
    [][(LoopIteration /\ FrameProcessed /\ Len(frame') >= 2
          /\ faces_done' = Len(frame')) =>
           /\ eye_closed_frames' = RuleOnce(frame'[Len(frame')]).eye_closed_frames
           /\ is_drowsy' = RuleOnce(frame'[Len(frame')]).is_drowsy
           /\ drowsy_detections' =
                  drowsy_detections + RuleOnce(frame'[Len(frame')]).onsets
           /\ eye_closed_frames' <= eye_closed_frames + 1]_vars

\* C27 (initial state of a session): every session begins, at
\* `self.running = True`, in state Alert with eye_closed_frames = 0, also
\* after an earlier session on the same detector was stopped while Drowsy
\* or inside a run of low-EAR frames.
SessionStartsAlert ==
    [][\A w \in Workers :
           (pc[w] = "opened" /\ pc'[w] = "top") =>
               (~is_drowsy' /\ eye_closed_frames' = 0)]_vars

\* C28 (a stop request is never lost): a detection thread that was still
\* opening the camera, or had not yet set running, when stop_detection()
\* was called begins no iteration of the loop, unless a start request came
\* after that stop.
StopNeverLost ==
    [][\A w \in Workers :
           (w \in stop_pending /\ pc[w] = "top") => pc'[w] # "body"]_vars

\* C29 (cleanup releases only the ending session's video source): while a
\* worker loop is alive on an opened capture, the cleanup that ends another
\* thread's loop leaves that capture opened; only the loop's own cleanup
\* releases it.
CleanupReleasesOwnSource ==
    [][\A w, v \in Workers :
           (/\ w # v /\ pc[w] \in {"top", "body"} /\ pc'[w] = pc[w]
            /\ running /\ cap = "opened"
            /\ pc[v] \in ExitPcs /\ pc'[v] = "idle") =>
               cap' = "opened"]_vars

\* C30 (no overlapping playback): at most one invocation of play_alert is
\* past the `playing` guard, in its load/play/fallback section, at any
\* instant.
NoOverlappingPlayback == audio_tasks["set"] + audio_tasks["play"] <= 1

\* C31 (every audio dispatch is played): an audio task that was launched
\* ends only by finishing a playback attempt (the sound or the system-beep
\* fallback), never by returning at the `playing` guard, and playing is
\* False when a playback has ended.
EveryDispatchPlayed ==
    [][AudioInFlight(audio_tasks') < AudioInFlight(audio_tasks) =>
           /\ AudioPlayRan
           /\ audio_out' \in {"sound", "beep", "silent"}
           /\ ~playing']_vars

(* ------------------------------------------------------------------ *)
(* Properties of stop_detection                                       *)
(* ------------------------------------------------------------------ *)
\* C32 (frame of stop): a call of stop_detection writes only the running
\* flag, which is False after it; eye_closed_frames, is_drowsy,
\* last_alert_time, last_email_time, total_frames, drowsy_detections and
\* session_start_time are unchanged, and a call made while running is
\* already False (no session running, or a second call) changes nothing of
\* the detector.
StopWritesOnlyRunning ==
    [][stop_calls' # stop_calls =>
           /\ ~running'
           /\ UNCHANGED <<eye_closed_frames, is_drowsy, last_alert_time, last_email_time,
                          total_frames, drowsy_detections, session_start_time>>
           /\ ~running => UNCHANGED <<running, detVars, cap, pc, taskVars, audioVars,
                                      cfgVars, envVars>>]_vars

StopWritesOnlyRunningWitness ==
    /\ stop_calls = 2
    /\ ~running
    /\ pc["w1"] = "idle"
    /\ cap = "closed"
    /\ is_drowsy
    /\ eye_closed_frames = 2
    /\ total_frames = 2
    /\ drowsy_detections = 1
    /\ last_alert_time = StartTime
    /\ session_start_time = StartTime

====
